---- MODULE Spec2Model ----
(***************************************************************************)
(* A model of the chess-state-machine crate: the Board value, the per-piece *)
(* move rule tables, move generation with king-safety filtering, move      *)
(* application (play_move) and the FEN decoder that builds boards.         *)
(***************************************************************************)
EXTENDS Integers, Sequences, FiniteSets, TLC

VARIABLES
  board,      \* the Board value play_move mutates
  prev,       \* the Board value before the last play_move call
  result,     \* what the last play_move call returned ("None" before any call)
  last_from,  \* source square of the last accepted move
  last_to,    \* destination square of the last accepted move
  last_move,  \* the PieceMove the last accepted call found
  nmoves,     \* number of accepted moves so far
  square_text, \* the text a caller hands to Square::try_from
  parsed,     \* << >> before that call, then << what it returned >>
  generated   \* << >> before a caller lists a piece's moves, then << the call >>

vars == <<board, prev, result, last_from, last_to, last_move, nmoves, square_text,
          parsed, generated>>

----------------------------------------------------------------------------
(* Bounds of the exploration *)

\* accepted moves explored from every decoded board
MaxMoves == 2

\* accepted moves explored from the standard start position
MaxStartMoves == 4

\* accepted moves explored from the wider set of decoded boards
MaxGenMoves == 1

\* longest text handed to Square::try_from
MaxTextLen == 3

----------------------------------------------------------------------------
(* Option<T>, Square, Color, PieceType *)

None == <<>>
Some(v) == <<v>>
IsSome(o) == o # <<>>
Unwrap(o) == o[1]

Coords == 0..7
Sq(x, y) == [x |-> x, y |-> y]
Squares == {Sq(x, y) : x \in Coords, y \in Coords}

White == "White"
Black == "Black"
Colors == {White, Black}

Pawn == "Pawn"
Rook == "Rook"
Knight == "Knight"
Bishop == "Bishop"
Queen == "Queen"
King == "King"

\* the modulus of the u8 coordinates
U8 == 256

\* AsU8 that drops the sign
AsMagnitude(v) == IF v < 0 THEN 0 - v ELSE v

\* `v as u8` for the i8 sums of valid_moves_for_rule
AsU8(v) == v % U8

Abs(v) == IF v < 0 THEN 0 - v ELSE v

----------------------------------------------------------------------------
(* Piece *)

NewPiece(piece_type, color, initial_square) ==
  [piece_type |-> piece_type, color |-> color, move_count |-> 0,
   initial_square |-> initial_square]

has_moved(piece) == piece.move_count > 0

\* increment_move_count that leaves the count as it is
keep_move_count(piece) == piece

increment_move_count(piece) == [piece EXCEPT !.move_count = @ + 1]

----------------------------------------------------------------------------
(* MoveRule and the rule tables *)

Normal == "Normal"
LineOfSight == "LineOfSight"
PawnSingleMove == "PawnSingleMove"
PawnDoubleMove == "PawnDoubleMove"
PawnCapture == "PawnCapture"
Castling == "Castling"

MoveRule(move_type, x, y) == [move_type |-> move_type, x_offset |-> x, y_offset |-> y]
normal(x, y) == MoveRule(Normal, x, y)
line_of_sight(x, y) == MoveRule(LineOfSight, x, y)
pawn_capture(x, y) == MoveRule(PawnCapture, x, y)
pawn_single_move(y) == MoveRule(PawnSingleMove, 0, y)
pawn_double_move(y) == MoveRule(PawnDoubleMove, 0, y)
castling(x) == MoveRule(Castling, x, 0)

KingRules ==
  << normal(1, 1), normal(-1, -1), normal(1, -1), normal(-1, 1),
     normal(0, 1), normal(0, -1), normal(1, 0), normal(-1, 0),
     castling(-2), castling(-3), castling(2) >>

move_rules(piece) ==
  CASE piece.piece_type = Pawn /\ piece.color = Black ->
         << pawn_single_move(-1), pawn_double_move(-2),
            pawn_capture(-1, -1), pawn_capture(1, -1) >>
    [] piece.piece_type = Pawn /\ piece.color = White ->
         << pawn_single_move(1), pawn_double_move(2),
            pawn_capture(-1, 1), pawn_capture(1, 1) >>
    [] piece.piece_type = Rook ->
         << line_of_sight(1, 0), line_of_sight(-1, 0),
            line_of_sight(0, 1), line_of_sight(0, -1) >>
    [] piece.piece_type = Knight ->
         << normal(1, 2), normal(1, -2), normal(-1, 2), normal(-1, -2),
            normal(2, -1), normal(2, 1), normal(-2, -1), normal(-2, 1) >>
    [] piece.piece_type = Bishop ->
         << line_of_sight(1, 1), line_of_sight(-1, 1),
            line_of_sight(1, -1), line_of_sight(-1, -1) >>
    [] piece.piece_type = Queen ->
         << line_of_sight(1, 0), line_of_sight(-1, 0),
            line_of_sight(0, 1), line_of_sight(0, -1),
            line_of_sight(1, 1), line_of_sight(-1, 1),
            line_of_sight(1, -1), line_of_sight(-1, -1) >>
    [] piece.piece_type = King -> KingRules

PieceMove(move_type, target) == [move_type |-> move_type, target |-> target]

----------------------------------------------------------------------------
(* Board *)

CastlingNone == [kingside |-> FALSE, queenside |-> FALSE]
CastlingBoth == [kingside |-> TRUE, queenside |-> TRUE]

EmptyBoard ==
  [pieces |-> [x \in Coords |-> [y \in Coords |-> None]],
   active_color |-> White,
   white_castling |-> CastlingBoth,
   black_castling |-> CastlingBoth,
   en_passant_target |-> None,
   half_moves |-> 0,
   full_moves |-> 1]

piece_at(b, x, y) == b.pieces[x][y]

\* *self.piece_mut(x, y) = cell
put(b, x, y, cell) == [b EXCEPT !.pieces[x][y] = cell]

set_piece(b, x, y, piece_type, color) ==
  put(b, x, y, Some(NewPiece(piece_type, color, Sq(x, y))))

\* the first square, file by file and rank by rank inside a file, that holds
\* a piece of the given type and colour
find_piece(b, piece_type, piece_color) ==
  LET hits == {i \in 0..63 :
                 LET cell == piece_at(b, i \div 8, i % 8)
                 IN IsSome(cell) /\ Unwrap(cell).piece_type = piece_type
                                 /\ Unwrap(cell).color = piece_color}
  IN IF hits = {} THEN None
     ELSE LET i == CHOOSE h \in hits : \A g \in hits : h <= g
          IN Some(Sq(i \div 8, i % 8))

----------------------------------------------------------------------------
(* Move generation.  A call that cannot return (a panic on a missing king,  *)
(* or is_king_threatened re-entered for a colour it is already computing on *)
(* the same board, which recurses until the stack is exhausted) yields the  *)
(* marker Abort instead of a list of moves.  The generation with            *)
(* check_king_safety = false, which is_king_threatened calls, comes first;  *)
(* the one with check_king_safety = true, which calls is_king_threatened,   *)
(* follows it.                                                              *)

\* no move: what a call that found none, or did not return, reports
NoMove == PieceMove("None", Sq(0, 0))
Abort == << NoMove >>
Aborted(moves) == moves = Abort

\* the three outcomes of is_king_threatened
Threatened == "threatened"
Safe == "safe"
NoReturn == "abort"

\* let mut board_copy = *self; target := Some(*piece); square := None
board_copy(b, piece, square, target) ==
  put(put(b, target.x, target.y, Some(piece)), square.x, square.y, None)

has_target(moves, square) == \E k \in 1..Len(moves) : moves[k].target = square

RECURSIVE extend(_, _, _)

\* valid_moves.extend(...) over the lists lo..hi, in their order
extend(lists, lo, hi) ==
  IF lo > hi THEN << >>
  ELSE IF lo = hi THEN lists[lo]
  ELSE LET mid == (lo + hi) \div 2
       IN extend(lists, lo, mid) \o extend(lists, mid + 1, hi)

\* the square k steps from `square` along the rule's offsets, in u8 arithmetic
ray(square, move_rule, k) ==
  Sq(AsU8(square.x + k * move_rule.x_offset), AsU8(square.y + k * move_rule.y_offset))

RECURSIVE line_of_sight_walk(_, _, _, _)
\* MoveType::LineOfSight with check_king_safety = false, call by call: push the
\* target unless it is off the board or holds an own piece, and call again
\* from the target when it is empty
line_of_sight_walk(b, piece, square, move_rule) ==
  LET target_square == ray(square, move_rule, 1)
      target == piece_at(b, target_square.x, target_square.y)
  IN IF target_square.x > 7 \/ target_square.y > 7 THEN << >>
     ELSE IF IsSome(target) /\ Unwrap(target).color = piece.color THEN << >>
     ELSE << PieceMove(LineOfSight, target_square) >>
          \o (IF target = None
              THEN line_of_sight_walk(b, piece, target_square, move_rule)
              ELSE << >>)

\* line_of_sight_reach that stops in front of every piece
line_of_sight_reach_empty(b, piece, square, move_rule) ==
  LET at(k) == ray(square, move_rule, k)
      cell(k) == piece_at(b, at(k).x, at(k).y)
      reached == {k \in 1..7 :
                    /\ at(k).x <= 7 /\ at(k).y <= 7
                    /\ \A i \in 1..k : cell(i) = None}
  IN << >> \o [k \in 1..Cardinality(reached) |-> PieceMove(LineOfSight, at(k))]

\* MoveType::LineOfSight with check_king_safety = false, its recursion unrolled:
\* the call on the j-th square of the ray pushes square j+1 unless it is off the
\* board or holds an own piece, and recurses while that square is empty
line_of_sight_reach(b, piece, square, move_rule) ==
  LET at(k) == ray(square, move_rule, k)
      cell(k) == piece_at(b, at(k).x, at(k).y)
      reached == {k \in 1..7 :
                    /\ at(k).x <= 7 /\ at(k).y <= 7
                    /\ ~(IsSome(cell(k)) /\ Unwrap(cell(k)).color = piece.color)
                    /\ \A i \in 1..(k - 1) : cell(i) = None}
  IN << >> \o [k \in 1..Cardinality(reached) |-> PieceMove(LineOfSight, at(k))]

\* MoveRule::line_of_sight(dir_x, 0): the rule a castling rule sends towards
\* its rook
path_rule(move_rule) == line_of_sight(IF move_rule.x_offset < 0 THEN -1 ELSE 1, 0)

\* rule_moves with a double-step that needs the square it passes to be empty
rule_moves_clear_step(b, piece, square, move_rule, target_square, path, castle) ==
  LET target == piece_at(b, target_square.x, target_square.y)
      move_type == move_rule.move_type
      here == << PieceMove(move_type, target_square) >>
      own == IsSome(target) /\ Unwrap(target).color = piece.color
      other == IsSome(target) /\ Unwrap(target).color # piece.color
  IN CASE move_type = Normal -> IF ~own THEN here ELSE << >>
       [] move_type = PawnSingleMove -> IF target = None THEN here ELSE << >>
       [] move_type = PawnDoubleMove ->
            IF /\ ~has_moved(piece) /\ target = None
               /\ piece_at(b, square.x, (square.y + target_square.y) \div 2) = None
            THEN here ELSE << >>
       [] move_type = PawnCapture ->
            IF other \/ Some(target_square) = b.en_passant_target THEN here ELSE << >>
       [] move_type = Castling ->
            IF ~has_moved(piece) /\ target = None
            THEN LET rook_x == IF move_rule.x_offset < 0 THEN 0 ELSE 7
                     rook == piece_at(b, rook_x, target_square.y)
                     rook_has_not_moved ==
                       IsSome(rook) /\ Unwrap(rook).piece_type = Rook
                                    /\ ~has_moved(Unwrap(rook))
                 IN IF ~rook_has_not_moved THEN << >>
                    ELSE IF path = Abort THEN Abort
                    ELSE IF Len(path) # Abs(square.x - rook_x) - 1 THEN << >>
                    ELSE IF castle = NoReturn THEN Abort
                    ELSE IF castle = Safe THEN here ELSE << >>
            ELSE << >>

\* the match on move_type for the rules that do not recurse, before the
\* king-safety retain. path: what the LineOfSight generation towards the rook
\* returns; castle: what self.is_king_threatened(piece.color()) returns
rule_moves(b, piece, square, move_rule, target_square, path, castle) ==
  LET target == piece_at(b, target_square.x, target_square.y)
      move_type == move_rule.move_type
      here == << PieceMove(move_type, target_square) >>
      own == IsSome(target) /\ Unwrap(target).color = piece.color
      other == IsSome(target) /\ Unwrap(target).color # piece.color
  IN CASE move_type = Normal -> IF ~own THEN here ELSE << >>
       [] move_type = PawnSingleMove -> IF target = None THEN here ELSE << >>
       [] move_type = PawnDoubleMove ->
            IF ~has_moved(piece) /\ target = None THEN here ELSE << >>
       [] move_type = PawnCapture ->
            IF other \/ Some(target_square) = b.en_passant_target THEN here ELSE << >>
       [] move_type = Castling ->
            IF ~has_moved(piece) /\ target = None
            THEN LET rook_x == IF move_rule.x_offset < 0 THEN 0 ELSE 7
                     rook == piece_at(b, rook_x, target_square.y)
                     rook_has_not_moved ==
                       IsSome(rook) /\ Unwrap(rook).piece_type = Rook
                                    /\ ~has_moved(Unwrap(rook))
                 IN IF ~rook_has_not_moved THEN << >>
                    ELSE IF path = Abort THEN Abort
                    ELSE IF Len(path) # Abs(square.x - rook_x) - 1 THEN << >>
                    ELSE IF castle = NoReturn THEN Abort
                    ELSE IF castle = Safe THEN here ELSE << >>
            ELSE << >>

\* valid_moves_for_rule(piece, square, move_rule, false)
unchecked_moves_for_rule(b, piece, square, move_rule, castle) ==
  LET target_square == ray(square, move_rule, 1)
  IN IF target_square.x > 7 \/ target_square.y > 7 THEN << >>
     ELSE IF move_rule.move_type = LineOfSight
     THEN line_of_sight_reach(b, piece, square, move_rule)
     ELSE rule_moves(b, piece, square, move_rule, target_square,
                     line_of_sight_reach(b, piece, square, path_rule(move_rule)),
                     castle)

\* the rules' lists put together; the call does not return when the
\* generation for one of the rules does not
collect(lists) ==
  IF \E i \in 1..Len(lists) : lists[i] = Abort THEN Abort
  ELSE extend(lists, 1, Len(lists))

\* valid_moves(piece, square, false): for move_rule in piece.move_rules(),
\* extend with valid_moves_for_rule
unchecked_moves(b, piece, square, castle) ==
  collect(<< >> \o [i \in 1..Len(move_rules(piece)) |->
                      unchecked_moves_for_rule(b, piece, square, move_rules(piece)[i],
                                               castle)])

\* the cells in the order of `for x in 0..8 { for y in 0..8 {`
CellIndex(square) == square.x * 8 + square.y

\* what the loop body decides at an opposite-colour piece: a move onto the
\* king's square returns true, a generation that does not return ends the call
threat_in(moves, king_square) ==
  IF moves = Abort THEN NoReturn
  ELSE IF has_target(moves, king_square) THEN Threatened
  ELSE Safe

\* the loop body at the opposite-colour piece on `square`
threat_at(b, king_square, square, castle) ==
  threat_in(unchecked_moves(b, Unwrap(piece_at(b, square.x, square.y)), square, castle),
            king_square)

\* of the loop's outcomes, each with its cell's index, the one that ends the
\* loop first
first_ending(outcomes) ==
  IF \A o \in outcomes : o[2] = Safe THEN Safe
  ELSE (CHOOSE o \in outcomes : o[2] # Safe /\ \A p \in outcomes : p[2] = Safe \/ o[1] <= p[1])[2]

\* the loop over the 64 cells: the outcome at the first opposite-colour piece,
\* in loop order, whose outcome ends the loop. castle: what a castling rule of
\* an opposite-colour piece gets from is_king_threatened for its own colour
threat_scan(b, color, king_square, castle) ==
  first_ending({<< CellIndex(sq), threat_at(b, king_square, sq, castle) >> :
                  sq \in {s \in Squares : IsSome(piece_at(b, s.x, s.y))
                                          /\ Unwrap(piece_at(b, s.x, s.y)).color # color}})

\* the colour of the pieces the loop of is_king_threatened(color) looks at
Opposite(color) == IF color = White THEN Black ELSE White

\* is_king_threatened(color) as called by a castling rule while
\* is_king_threatened(Opposite(color)) is running on the same board: a castling
\* rule that its loop reaches asks for Opposite(color) again, on the same board,
\* and that chain of calls does not return
is_king_threatened_within(b, color) ==
  LET king == find_piece(b, King, color)
  IN IF king = None THEN NoReturn
     ELSE threat_scan(b, color, Unwrap(king), NoReturn)

\* is_king_threatened(color); a castling rule that its loop reaches calls
\* is_king_threatened for the other colour on the same board
is_king_threatened(b, color) ==
  LET king == find_piece(b, King, color)
  IN IF king = None THEN NoReturn
     ELSE threat_scan(b, color, Unwrap(king),
                      is_king_threatened_within(b, Opposite(color)))

\* the moves whose target has the verdict Safe; no list when a verdict is
\* NoReturn
keep_safe(moves, verdicts) ==
  IF moves = Abort \/ \E v \in verdicts : v[2] = NoReturn THEN Abort
  ELSE SelectSeq(moves, LAMBDA m : << m.target, Safe >> \in verdicts)

\* valid_moves.retain(|m| !board_copy.is_king_threatened(piece.color())): the
\* closure's answer depends on the move's target only
retain(b, piece, square, moves) ==
  keep_safe(moves,
            {<< t, is_king_threatened(board_copy(b, piece, square, t), piece.color) >> :
               t \in {moves[k].target : k \in 1..Len(IF moves = Abort THEN << >> ELSE moves)}})

\* what the retains of levels k-1 .. 0 decide about the move to square k: the
\* verdict of the innermost level that does not keep it. Levels 1..k-1 copy the
\* same board, their own square being empty already, so they agree (inner);
\* level 0 moves the piece off its square (outer)
innermost(k, inner, outer) ==
  IF k > 1 /\ inner # Safe THEN inner ELSE outer

\* MoveType::LineOfSight with check_king_safety = true. Level j is the call
\* whose `square` is the j-th square of the ray (level 0 the outermost call);
\* every level j < k runs the retain on the move to square k, innermost level
\* first, on board_copy(piece: square j -> square k)
line_of_sight_moves(b, piece, square, move_rule) ==
  LET at(k) == ray(square, move_rule, k)
      moves == line_of_sight_reach(b, piece, square, move_rule)
      verdict(j, k) == is_king_threatened(board_copy(b, piece, at(j), at(k)), piece.color)
  IN keep_safe(moves, {<< at(k), innermost(k, verdict(1, k), verdict(0, k)) >> :
                          k \in 1..Len(moves)})

\* valid_moves_for_rule that hands the castling rule the unfiltered ray
\* towards the rook
valid_moves_for_rule_open_path(b, piece, square, move_rule, castle) ==
  LET target_square == ray(square, move_rule, 1)
  IN IF target_square.x > 7 \/ target_square.y > 7 THEN << >>
     ELSE IF move_rule.move_type = LineOfSight
     THEN line_of_sight_moves(b, piece, square, move_rule)
     ELSE retain(b, piece, square,
                 rule_moves(b, piece, square, move_rule, target_square,
                            line_of_sight_reach(b, piece, square, path_rule(move_rule)),
                            castle))

\* valid_moves_for_rule(piece, square, move_rule, true)
valid_moves_for_rule(b, piece, square, move_rule, castle) ==
  LET target_square == ray(square, move_rule, 1)
  IN IF target_square.x > 7 \/ target_square.y > 7 THEN << >>
     ELSE IF move_rule.move_type = LineOfSight
     THEN line_of_sight_moves(b, piece, square, move_rule)
     ELSE retain(b, piece, square,
                 rule_moves(b, piece, square, move_rule, target_square,
                            line_of_sight_moves(b, piece, square, path_rule(move_rule)),
                            castle))

\* valid_moves(piece, square, true)
valid_moves(b, piece, square, castle) ==
  collect(<< >> \o [i \in 1..Len(move_rules(piece)) |->
                      valid_moves_for_rule(b, piece, square, move_rules(piece)[i], castle)])

----------------------------------------------------------------------------
(* Move application *)

Ok == "Ok"
PawnPromote == "PawnPromote"
Invalid == "Invalid"
\* the call did not return: a panic or unbounded recursion ended the process
Aborts == "Aborts"

update_en_passant(b, piece_move) ==
  LET en_passant_target ==
        IF piece_move.move_type = PawnDoubleMove
        THEN IF piece_move.target.y = 3 THEN Some(Sq(piece_move.target.x, 2))
             ELSE IF piece_move.target.y = 4 THEN Some(Sq(piece_move.target.x, 5))
             ELSE None
        ELSE None
  IN [b EXCEPT !.en_passant_target = en_passant_target]

\* clear_rights with the sides as the board has them: the file-0 rook on the
\* queenside
clear_rights_by_wing(rights, moved_piece) ==
  CASE moved_piece.piece_type = King -> CastlingNone
    [] moved_piece.piece_type = Rook /\ moved_piece.initial_square.x = 0 ->
         [rights EXCEPT !.queenside = FALSE]
    [] moved_piece.piece_type = Rook /\ moved_piece.initial_square.x = 7 ->
         [rights EXCEPT !.kingside = FALSE]
    [] OTHER -> rights

\* match moved_piece.piece_type() { King .., Rook if initial file 0 / 7 .., _ }
clear_rights(rights, moved_piece) ==
  CASE moved_piece.piece_type = King -> CastlingNone
    [] moved_piece.piece_type = Rook /\ moved_piece.initial_square.x = 0 ->
         [rights EXCEPT !.kingside = FALSE]
    [] moved_piece.piece_type = Rook /\ moved_piece.initial_square.x = 7 ->
         [rights EXCEPT !.queenside = FALSE]
    [] OTHER -> rights

\* update_castling_availability that updates the rights of both colours
update_castling_availability_both(b, moved_piece) ==
  [b EXCEPT !.black_castling = clear_rights(@, moved_piece),
            !.white_castling = clear_rights(@, moved_piece)]

update_castling_availability(b, moved_piece) ==
  IF moved_piece.color = Black
  THEN [b EXCEPT !.black_castling = clear_rights(@, moved_piece)]
  ELSE [b EXCEPT !.white_castling = clear_rights(@, moved_piece)]

\* .into_iter().find(|valid_move| valid_move.target == to)
find_move(moves, to) ==
  LET hits == {k \in 1..Len(moves) : moves[k].target = to}
  IN IF hits = {} THEN None
     ELSE Some(moves[CHOOSE k \in hits : \A j \in hits : k <= j])

\* clock_after without the reset on a capture
clock_after_pawn_only(b, piece, to) ==
  IF piece.piece_type = Pawn THEN 0 ELSE b.half_moves + 1

\* if piece is a pawn or the destination is occupied { 0 } else { +1 }
clock_after(b, piece, to) ==
  IF piece.piece_type = Pawn \/ IsSome(piece_at(b, to.x, to.y))
  THEN 0 ELSE b.half_moves + 1

\* the removal of the pawn an en-passant capture takes
en_passant_removal(b, valid_move, to) ==
  IF IsSome(b.en_passant_target)
     /\ valid_move.move_type = PawnCapture
     /\ valid_move.target = Unwrap(b.en_passant_target)
  THEN put(b, to.x, IF Unwrap(b.en_passant_target).y = 2 THEN 3 ELSE 4, None)
  ELSE b

\* castling_relocation without the rook's increment_move_count
castling_relocation_keeps_count(b, valid_move, from, to) ==
  IF valid_move.move_type = Castling
  THEN LET rook_from_x == IF to.x > from.x THEN 7 ELSE 0
           rook_to_x == IF to.x > from.x THEN to.x - 1 ELSE to.x + 1
           rook == Unwrap(piece_at(b, rook_from_x, to.y))
       IN put(put(b, rook_from_x, to.y, None), rook_to_x, to.y, Some(rook))
  ELSE b

\* the relocation of the rook of a castling move
castling_relocation(b, valid_move, from, to) ==
  IF valid_move.move_type = Castling
  THEN LET rook_from_x == IF to.x > from.x THEN 7 ELSE 0
           rook_to_x == IF to.x > from.x THEN to.x - 1 ELSE to.x + 1
           rook == increment_move_count(Unwrap(piece_at(b, rook_from_x, to.y)))
       IN put(put(b, rook_from_x, to.y, None), rook_to_x, to.y, Some(rook))
  ELSE b

\* flip_turn with the turn staying with White
flip_turn_one_way(b) ==
  IF b.active_color = Black
  THEN [b EXCEPT !.full_moves = @ + 1, !.active_color = White]
  ELSE b

\* self.active_color = if Black { full_moves += 1; White } else { Black }
flip_turn(b) ==
  IF b.active_color = Black
  THEN [b EXCEPT !.full_moves = @ + 1, !.active_color = White]
  ELSE [b EXCEPT !.active_color = Black]

\* move_result that knows the last rank only
move_result_last_rank(piece, to) ==
  IF to.y = 7 /\ piece.piece_type = Pawn THEN PawnPromote ELSE Ok

\* return if (to.y == 0 || to.y == 7) && Pawn { PawnPromote } else { Ok }
move_result(piece, to) ==
  IF (to.y = 0 \/ to.y = 7) /\ piece.piece_type = Pawn THEN PawnPromote ELSE Ok

\* untouched with the half-move clock already advanced
untouched_after_clock(b, r) ==
  [board |-> [b EXCEPT !.half_moves = @ + 1], result |-> r, move |-> NoMove]

\* the call ends with r before any assignment to self
untouched(b, r) == [board |-> b, result |-> r, move |-> NoMove]

\* the body of play_move once valid_moves(&piece, &from, true) is known
play_found(b, from, to, valid) ==
  LET cell == piece_at(b, from.x, from.y)
  IN IF cell = None THEN untouched(b, Invalid)
     ELSE IF Aborted(valid) THEN untouched(b, Aborts)
     ELSE LET found == find_move(valid, to)
          IN IF found = None THEN untouched(b, Invalid)
             ELSE LET valid_move == Unwrap(found)
                      b1 == [b EXCEPT !.half_moves = clock_after(b, Unwrap(cell), to)]
                      piece == increment_move_count(Unwrap(cell))
                      b2 == en_passant_removal(b1, valid_move, to)
                      b3 == castling_relocation(b2, valid_move, from, to)
                      b4 == put(put(b3, from.x, from.y, None), to.x, to.y, Some(piece))
                      b5 == update_en_passant(b4, valid_move)
                      b6 == update_castling_availability(b5, piece)
                      b7 == flip_turn(b6)
                  IN [board |-> b7,
                      result |-> move_result(piece, to),
                      move |-> valid_move]

\* the moves play_move looks the destination up in
legal_moves(b, from) ==
  LET cell == piece_at(b, from.x, from.y)
  IN IF cell = None THEN << >>
     ELSE valid_moves(b, Unwrap(cell), from,
                      is_king_threatened(b, Unwrap(cell).color))

play_move(b, from, to) == play_found(b, from, to, legal_moves(b, from))

----------------------------------------------------------------------------
(* Square::try_from(&str) and the FEN decoder.  Text is a sequence of       *)
(* one-character strings.                                                   *)

FileLetters == << "a", "b", "c", "d", "e", "f", "g", "h" >>
RankDigits == << "1", "2", "3", "4", "5", "6", "7", "8" >>
DecimalDigits == << "0", "1", "2", "3", "4", "5", "6", "7", "8", "9" >>
UpperLetters == << "A", "B", "C", "D", "E", "F", "G", "H", "K", "N", "P", "Q", "R" >>
LowerLetters == << "a", "b", "c", "d", "e", "f", "g", "h", "k", "n", "p", "q", "r" >>

IndexOf(seq, c) ==
  IF \E k \in 1..Len(seq) : seq[k] = c
  THEN CHOOSE k \in 1..Len(seq) : seq[k] = c
  ELSE 0

is_uppercase(c) == IndexOf(UpperLetters, c) > 0
to_lowercase(c) == IF is_uppercase(c) THEN LowerLetters[IndexOf(UpperLetters, c)] ELSE c

\* c.to_digit(10)
to_digit(c) == IF IndexOf(DecimalDigits, c) > 0 THEN Some(IndexOf(DecimalDigits, c) - 1) ELSE None

RECURSIVE square_chars(_, _, _)
\* the loop of Square::try_from over the characters from position i on
square_chars(value, i, square) ==
  IF i > Len(value) THEN Some(square)
  ELSE LET c == to_lowercase(value[i])
       IN IF IndexOf(FileLetters, c) > 0
          THEN square_chars(value, i + 1, [square EXCEPT !.x = IndexOf(FileLetters, c) - 1])
          ELSE IF IndexOf(RankDigits, c) > 0
          THEN square_chars(value, i + 1, [square EXCEPT !.y = IndexOf(RankDigits, c) - 1])
          ELSE None

\* Square::try_from(&str): None stands for Err(())
square_try_from(value) ==
  IF Len(value) # 2 THEN None ELSE square_chars(value, 1, Sq(0, 0))

fen_char_to_piece(c) ==
  LET l == to_lowercase(c)
      color == IF is_uppercase(c) THEN White ELSE Black
  IN CASE l = "p" -> Some(<< Pawn, color >>)
       [] l = "n" -> Some(<< Knight, color >>)
       [] l = "b" -> Some(<< Bishop, color >>)
       [] l = "r" -> Some(<< Rook, color >>)
       [] l = "q" -> Some(<< Queen, color >>)
       [] l = "k" -> Some(<< King, color >>)
       [] OTHER -> None

\* fen.split_once(' '): the position of the first space
first_space(fen) == CHOOSE k \in 1..Len(fen) : fen[k] = " " /\ \A j \in 1..(k - 1) : fen[j] # " "

\* str::split_whitespace: the maximal runs of non-space characters, in order
split_whitespace(text) ==
  LET starts == {k \in 1..Len(text) : text[k] # " " /\ (k = 1 \/ text[k - 1] = " ")}
      nth(n) == CHOOSE k \in starts : Cardinality({j \in starts : j < k}) = n - 1
      stop(k) == CHOOSE e \in k..Len(text) :
                   /\ \A j \in k..e : text[j] # " "
                   /\ (e = Len(text) \/ text[e + 1] = " ")
  IN [n \in 1..Cardinality(starts) |-> SubSeq(text, nth(n), stop(nth(n)))]

RECURSIVE parse_u32(_, _, _)
\* str::parse::<u32> on a word of decimal digits
parse_u32(word, i, acc) ==
  IF i > Len(word) THEN acc
  ELSE parse_u32(word, i + 1, acc * 10 + Unwrap(to_digit(word[i])))

\* The loop over the piece placement field, told by position: when the loop
\* reaches character i, rank is 7 less the '/' read so far and file is the sum
\* of what the characters since the last '/' advanced it by.
rank_at(placement, i) == 7 - Cardinality({j \in 1..(i - 1) : placement[j] = "/"})

advance(c) == IF IsSome(to_digit(c)) THEN Unwrap(to_digit(c)) ELSE 1

file_at(placement, i) ==
  LET since == {j \in 1..(i - 1) : \A k \in j..(i - 1) : placement[k] # "/"}
  IN Cardinality({<< j, n >> \in since \X (1..9) : n <= advance(placement[j])})

\* board.set_piece(file as _, rank as _, piece_type, color) for every piece
\* letter of the field; a later letter for the same cell replaces an earlier one
place_pieces(b, placement) ==
  LET letters == {i \in 1..Len(placement) :
                    placement[i] # "/" /\ to_digit(placement[i]) = None}
      cells == {<< i, AsU8(file_at(placement, i)), AsU8(rank_at(placement, i)) >> :
                  i \in letters}
      last(x, y) == CHOOSE c \in cells :
                      /\ c[2] = x /\ c[3] = y
                      /\ \A d \in cells : (d[2] = x /\ d[3] = y) => d[1] <= c[1]
      piece(c) == LET pc == Unwrap(fen_char_to_piece(placement[c[1]]))
                  IN NewPiece(pc[1], pc[2], Sq(c[2], c[3]))
  IN [b EXCEPT !.pieces =
        [x \in Coords |-> [y \in Coords |->
           IF \E c \in cells : c[2] = x /\ c[3] = y
           THEN Some(piece(last(x, y)))
           ELSE b.pieces[x][y]]]]

castling_field(word) ==
  [white |-> [kingside |-> IndexOf(word, "K") > 0, queenside |-> IndexOf(word, "Q") > 0],
   black |-> [kingside |-> IndexOf(word, "k") > 0, queenside |-> IndexOf(word, "q") > 0]]

from_fen(fen) ==
  LET sp == first_space(fen)
      placed == place_pieces(EmptyBoard, SubSeq(fen, 1, sp - 1))
      fields == split_whitespace(SubSeq(fen, sp + 1, Len(fen)))
      rights == castling_field(fields[2])
      target == square_try_from(fields[3])
  IN [placed EXCEPT
        !.active_color = CASE fields[1] = << "b" >> -> Black
                           [] fields[1] = << "w" >> -> White,
        !.white_castling = rights.white,
        !.black_castling = rights.black,
        !.en_passant_target = IF IsSome(target) THEN target ELSE @,
        !.half_moves = parse_u32(fields[4], 1, 0),
        !.full_moves = parse_u32(fields[5], 1, 0)]

----------------------------------------------------------------------------
(* Display for Square and the FEN encoder *)

RECURSIVE to_string(_)
\* u32::to_string: the decimal digits of n
to_string(n) ==
  IF n < 10 THEN << DecimalDigits[n + 1] >>
  ELSE to_string(n \div 10) \o << DecimalDigits[(n % 10) + 1] >>

\* write!(f, "{}{}", char::from_u32('a' as u32 + self.x as u32).unwrap(), self.y + 1)
square_display(square) == << FileLetters[square.x + 1] >> \o to_string(square.y + 1)

\* piece_to_fen_char that leaves the letter in lower case for both colours
piece_to_fen_char_lower(piece) ==
  CASE piece.piece_type = Pawn -> "p"
    [] piece.piece_type = Knight -> "n"
    [] piece.piece_type = Bishop -> "b"
    [] piece.piece_type = Rook -> "r"
    [] piece.piece_type = Queen -> "q"
    [] piece.piece_type = King -> "k"

piece_to_fen_char(piece) ==
  LET c == CASE piece.piece_type = Pawn -> "p"
             [] piece.piece_type = Knight -> "n"
             [] piece.piece_type = Bishop -> "b"
             [] piece.piece_type = Rook -> "r"
             [] piece.piece_type = Queen -> "q"
             [] piece.piece_type = King -> "k"
  IN IF piece.color = Black THEN c ELSE UpperLetters[IndexOf(LowerLetters, c)]

\* empty_squares when the loop over x reaches file x of rank y (x = 8: after
\* the loop): the empty cells since the last piece of the rank
empty_run(b, x, y) ==
  Cardinality({i \in 0..(x - 1) : \A j \in i..(x - 1) : piece_at(b, j, y) = None})

\* what the loop body pushes at file x of rank y
cell_text(b, x, y) ==
  IF piece_at(b, x, y) = None THEN << >>
  ELSE (IF empty_run(b, x, y) > 0 THEN to_string(empty_run(b, x, y)) ELSE << >>)
       \o << piece_to_fen_char(Unwrap(piece_at(b, x, y))) >>

\* what one pass of `for y in (0..8).rev()` pushes
rank_text(b, y) ==
  extend(<< >> \o [i \in 1..8 |-> cell_text(b, i - 1, y)], 1, 8)
  \o (IF empty_run(b, 8, y) > 0 THEN to_string(empty_run(b, 8, y)) ELSE << >>)
  \o (IF y > 0 THEN << "/" >> ELSE << >>)

\* the castling field: K, Q, k, q for the rights held, "-" for none
castling_text(b) ==
  LET flags == (IF b.white_castling.kingside THEN << "K" >> ELSE << >>)
               \o (IF b.white_castling.queenside THEN << "Q" >> ELSE << >>)
               \o (IF b.black_castling.kingside THEN << "k" >> ELSE << >>)
               \o (IF b.black_castling.queenside THEN << "q" >> ELSE << >>)
  IN IF flags = << >> THEN << "-" >> ELSE flags

into_fen(b) ==
  extend(<< >> \o [i \in 1..8 |-> rank_text(b, 8 - i)], 1, 8)
  \o (IF b.active_color = Black THEN << " ", "b" >> ELSE << " ", "w" >>)
  \o << " " >> \o castling_text(b)
  \o << " " >> \o (IF IsSome(b.en_passant_target)
                    THEN square_display(Unwrap(b.en_passant_target))
                    ELSE << "-" >>)
  \o << " " >> \o to_string(b.half_moves)
  \o << " " >> \o to_string(b.full_moves)

----------------------------------------------------------------------------
(* The decoded boards play starts from *)

\* the standard start position
\* rnbqkbnr/pppppppp/8/8/8/8/PPPPPPPP/RNBQKBNR w KQkq - 0 1
FenStart ==
  << "r", "n", "b", "q", "k", "b", "n", "r", "/", "p", "p", "p", "p", "p",
     "p", "p", "p", "/", "8", "/", "8", "/", "8", "/", "8", "/", "P", "P",
     "P", "P", "P", "P", "P", "P", "/", "R", "N", "B", "Q", "K", "B", "N",
     "R", " ", "w", " ", "K", "Q", "k", "q", " ", "-", " ", "0", " ", "1" >>

\* a pawn that can double-step beside an enemy pawn, on the rank of a king and a rook
\* 7k/3p4/8/K3P2r/8/8/8/8 b - - 0 1
FenEnPassant ==
  << "7", "k", "/", "3", "p", "4", "/", "8", "/", "K", "3", "P", "2", "r",
     "/", "8", "/", "8", "/", "8", "/", "8", " ", "b", " ", "-", " ", "-",
     " ", "0", " ", "1" >>

\* both kings and all four rooks on their squares with nothing between
\* r3k2r/8/8/8/8/8/8/R3K2R w KQkq - 0 1
FenBothCastle ==
  << "r", "3", "k", "2", "r", "/", "8", "/", "8", "/", "8", "/", "8", "/",
     "8", "/", "8", "/", "R", "3", "K", "2", "R", " ", "w", " ", "K", "Q",
     "k", "q", " ", "-", " ", "0", " ", "1" >>

\* a king free to castle to either side
\* 7k/8/8/8/8/p6p/P6P/R3K2R w KQ - 0 1
FenCastle ==
  << "7", "k", "/", "8", "/", "8", "/", "8", "/", "8", "/", "p", "6", "p",
     "/", "P", "6", "P", "/", "R", "3", "K", "2", "R", " ", "w", " ", "K",
     "Q", " ", "-", " ", "0", " ", "1" >>

\* a rook bearing on a square its enemy king would cross to castle; no rights
\* 5r1k/8/8/8/8/8/8/4K2R w - - 0 1
FenGuarded ==
  << "5", "r", "1", "k", "/", "8", "/", "8", "/", "8", "/", "8", "/", "8",
     "/", "8", "/", "4", "K", "2", "R", " ", "w", " ", "-", " ", "-", " ",
     "0", " ", "1" >>

\* pawns one step from promotion, and one that has just double-stepped
\* 7k/P7/8/8/4P3/8/3P3p/K7 b - e3 0 1
FenPromote ==
  << "7", "k", "/", "P", "7", "/", "8", "/", "8", "/", "4", "P", "3", "/",
     "8", "/", "3", "P", "3", "p", "/", "K", "7", " ", "b", " ", "-", " ",
     "e", "3", " ", "0", " ", "1" >>

\* a bishop and a knight
\* 7k/8/8/8/3n4/2B5/8/K7 w - - 0 1
FenMinor ==
  << "7", "k", "/", "8", "/", "8", "/", "8", "/", "3", "n", "4", "/", "2",
     "B", "5", "/", "8", "/", "K", "7", " ", "w", " ", "-", " ", "-", " ",
     "0", " ", "1" >>

StartFens == {FenEnPassant, FenBothCastle, FenCastle, FenGuarded, FenPromote, FenMinor}

----------------------------------------------------------------------------
(* The state machine: a caller decodes a board and calls play_move on it *)

Accepted == {Ok, PawnPromote}

Init ==
  /\ board \in {from_fen(fen) : fen \in StartFens}
  /\ prev = board
  /\ result = "None"
  /\ last_from = Sq(0, 0)
  /\ last_to = Sq(0, 0)
  /\ last_move = NoMove
  /\ nmoves = 0
  /\ square_text = << >>
  /\ parsed = << >>
  /\ generated = << >>

\* board.play_move(from, to) as its caller sees it: the destination of an
\* accepted move, and what play_move returned and left behind
call(b, from, to, valid) ==
  LET r == play_found(b, from, to, valid)
  IN << IF r.result \in Accepted THEN Some(to) ELSE None, r >>

\* board.play_move(from, to) for the squares a caller picks from, while fewer
\* than `most` moves have been accepted and no call has ended the process
Play(sources, destinations, most) ==
  /\ nmoves < most
  /\ result # Aborts
  /\ \E from \in sources :
       \E valid \in {legal_moves(board, from)} :
         \E c \in {call(board, from, to, valid) : to \in destinations} :
           /\ board' = c[2].board
           /\ prev' = board
           /\ result' = c[2].result
           /\ last_from' = IF IsSome(c[1]) THEN from ELSE last_from
           /\ last_to' = IF IsSome(c[1]) THEN Unwrap(c[1]) ELSE last_to
           /\ last_move' = IF IsSome(c[1]) THEN c[2].move ELSE last_move
           /\ nmoves' = IF IsSome(c[1]) THEN nmoves + 1 ELSE nmoves
           /\ UNCHANGED << square_text, parsed, generated >>

\* board.play_move(from, to), for every pair of squares
PlayMove == Play(Squares, Squares, MaxMoves)

Next == PlayMove

Spec == Init /\ [][Next]_vars

----------------------------------------------------------------------------
(* Play from the standard start position, decoded from its FEN as       *)
(* examples/basic.rs does.  The caller picks among the squares           *)
(* b1 c3 d5 c7 e8 and e2 e4 e7 e5 d7.                                    *)

StartSquares ==
  {Sq(1, 0), Sq(2, 2), Sq(3, 4), Sq(2, 6), Sq(4, 7),
   Sq(4, 1), Sq(4, 3), Sq(4, 6), Sq(4, 4), Sq(3, 6)}

InitStart ==
  /\ board = from_fen(FenStart)
  /\ prev = board
  /\ result = "None"
  /\ last_from = Sq(0, 0)
  /\ last_to = Sq(0, 0)
  /\ last_move = NoMove
  /\ nmoves = 0
  /\ square_text = << >>
  /\ parsed = << >>
  /\ generated = << >>

PlayStart == Play(StartSquares, StartSquares, MaxStartMoves)

NextStart == PlayStart

SpecStart == InitStart /\ [][NextStart]_vars

----------------------------------------------------------------------------
(* Play from a wider set of decoded boards, one move deep *)

\* a king in check from a rook that its queen can take or screen off
\* 4r2k/8/8/8/Q7/8/8/4K3 w - - 0 1
FenCheck ==
  << "4", "r", "2", "k", "/", "8", "/", "8", "/", "8", "/", "Q", "7", "/",
     "8", "/", "8", "/", "4", "K", "3", " ", "w", " ", "-", " ", "-", " ",
     "0", " ", "1" >>

\* a bishop and a rook, each standing between its king and an attacker
\* 7k/8/8/8/8/2b5/1B6/K2R3q w - - 0 1
FenPins ==
  << "7", "k", "/", "8", "/", "8", "/", "8", "/", "8", "/", "2", "b", "5",
     "/", "1", "B", "6", "/", "K", "2", "R", "3", "q", " ", "w", " ", "-",
     " ", "-", " ", "0", " ", "1" >>

\* a rook that can take the rook of a king that holds a castling right
\* r3k3/8/8/8/8/8/8/RN4K1 w q - 0 1
FenRookTaken ==
  << "r", "3", "k", "3", "/", "8", "/", "8", "/", "8", "/", "8", "/", "8",
     "/", "8", "/", "R", "N", "4", "K", "1", " ", "w", " ", "q", " ", "-",
     " ", "0", " ", "1" >>

GenFens == StartFens \cup {FenCheck, FenPins, FenRookTaken}

InitGen ==
  /\ board \in {from_fen(fen) : fen \in GenFens}
  /\ prev = board
  /\ result = "None"
  /\ last_from = Sq(0, 0)
  /\ last_to = Sq(0, 0)
  /\ last_move = NoMove
  /\ nmoves = 0
  /\ square_text = << >>
  /\ parsed = << >>
  /\ generated = << >>

PlayGen == Play(Squares, Squares, MaxGenMoves)

NextGen == PlayGen

SpecGen == InitGen /\ [][NextGen]_vars

----------------------------------------------------------------------------
(* A caller parses a square from a text *)

\* characters of both classes in either case, and of neither class
TextChars == {"a", "E", "h", "1", "8", "9", "i"}

RECURSIVE texts(_)
\* the texts of length n over TextChars
texts(n) ==
  IF n = 0 THEN {<< >>}
  ELSE {t \o << c >> : t \in texts(n - 1), c \in TextChars}

InitSquare ==
  /\ square_text \in UNION {texts(n) : n \in 0..MaxTextLen}
  /\ parsed = << >>
  /\ generated = << >>
  /\ board = EmptyBoard
  /\ prev = board
  /\ result = "None"
  /\ last_from = Sq(0, 0)
  /\ last_to = Sq(0, 0)
  /\ last_move = NoMove
  /\ nmoves = 0

\* Square::try_from(text)
ParseSquare ==
  /\ parsed = << >>
  /\ parsed' = << square_try_from(square_text) >>
  /\ UNCHANGED << board, prev, result, last_from, last_to, last_move, nmoves,
                  square_text, generated >>

NextSquare == ParseSquare

SpecSquare == InitSquare /\ [][NextSquare]_vars

----------------------------------------------------------------------------
(* A caller decodes a board and lists the moves of one of its pieces *)

MoveFens == GenFens \cup {FenStart}

InitMoves ==
  /\ board \in {from_fen(fen) : fen \in MoveFens}
  /\ prev = board
  /\ result = "None"
  /\ last_from = Sq(0, 0)
  /\ last_to = Sq(0, 0)
  /\ last_move = NoMove
  /\ nmoves = 0
  /\ square_text = << >>
  /\ parsed = << >>
  /\ generated = << >>

\* for move_rule in piece.move_rules(): what valid_moves_for_rule(piece,
\* square, &move_rule, check_king_safety) returns, rule by rule
rule_lists(b, piece, square, check_king_safety, castle) ==
  << >> \o [i \in 1..Len(move_rules(piece)) |->
             IF check_king_safety
             THEN valid_moves_for_rule(b, piece, square, move_rules(piece)[i], castle)
             ELSE unchecked_moves_for_rule(b, piece, square, move_rules(piece)[i], castle)]

\* valid_moves(piece, square, check_king_safety) for the piece on a square
ListMoves ==
  /\ generated = << >>
  /\ \E square \in {s \in Squares : IsSome(piece_at(board, s.x, s.y))} :
       \E check_king_safety \in BOOLEAN :
         \E piece \in {Unwrap(piece_at(board, square.x, square.y))} :
           generated' = << [square |-> square,
                            check_king_safety |-> check_king_safety,
                            lists |-> rule_lists(board, piece, square, check_king_safety,
                                                 is_king_threatened(board, piece.color))] >>
  /\ UNCHANGED << board, prev, result, last_from, last_to, last_move, nmoves,
                  square_text, parsed >>

NextMoves == ListMoves

SpecMoves == InitMoves /\ [][NextMoves]_vars

----------------------------------------------------------------------------
(* Properties of play_move.  They speak about the last call: `prev` is  *)
(* the board it was made on, `board` the board it left, `result` what   *)
(* it returned; last_from, last_to and last_move describe it when it    *)
(* was accepted.                                                        *)

\* the piece an accepted call moved, as it stood on the board before the call
moved_piece == Unwrap(piece_at(prev, last_from.x, last_from.y))

\* the number of pieces on a board
piece_count(b) == Cardinality({s \in Squares : IsSome(piece_at(b, s.x, s.y))})

\* the squares that hold a king of a colour
kings(b, color) ==
  {s \in Squares : /\ IsSome(piece_at(b, s.x, s.y))
                   /\ Unwrap(piece_at(b, s.x, s.y)).piece_type = King
                   /\ Unwrap(piece_at(b, s.x, s.y)).color = color}

one_king_each(b) ==
  Cardinality(kings(b, White)) = 1 /\ Cardinality(kings(b, Black)) = 1

\* the castling rights of a colour
rights_of(b, color) == IF color = Black THEN b.black_castling ELSE b.white_castling

\* C1: when play_move returns Invalid, every component of the board (the 64
\* cells with each piece's move count, active color, castling rights,
\* en-passant target, half-move clock, full-move number) is as before the call
C1_InvalidLeavesBoard == result = Invalid => board = prev

\* an Invalid call on a board that accepted moves have already changed
C1_Witness == result = Invalid /\ nmoves > 0 /\ board.half_moves > 0

\* C2: after a call that returns Ok or PawnPromote, no piece of the other
\* colour has a generated move (king safety off) onto the square of the king
\* of the moved piece's colour
C2_MoverKingNotAttacked ==
  result \in Accepted => is_king_threatened(board, moved_piece.color) # Threatened

\* C3: on a board with exactly one king of each colour, play_move returns
\* Ok, PawnPromote or Invalid: the call does not abort
C3_CallReturns == one_king_each(prev) => result # Aborts

\* C4: every board reached from the standard start position by play_move
\* calls holds exactly one White king and exactly one Black king
C4_OneKingEach == one_king_each(board)

\* C5: after a call that returns Ok or PawnPromote active_color is the
\* opposite of what it was before the call; after Invalid it is unchanged
C5_TurnFlips ==
  /\ result \in Accepted => board.active_color = Opposite(prev.active_color)
  /\ result = Invalid => board.active_color = prev.active_color

\* a promotion, after which the turn has passed to the other colour
C5_Witness == result = PawnPromote /\ board.active_color # prev.active_color

\* C6: an accepted move adds 1 to the full-move number if the moved piece is
\* Black and leaves it alone if the moved piece is White; Invalid leaves it
\* alone
C6_FullMoveFollowsMover ==
  /\ result \in Accepted =>
       board.full_moves = prev.full_moves + (IF moved_piece.color = Black THEN 1 ELSE 0)
  /\ result = Invalid => board.full_moves = prev.full_moves

\* C7: after an accepted move the half-move clock is 0 if the moved piece is
\* a pawn or the move took a piece off the board, and the previous value
\* plus 1 otherwise
C7_ClockLaw ==
  result \in Accepted =>
    board.half_moves = IF moved_piece.piece_type = Pawn
                          \/ piece_count(board) < piece_count(prev)
                       THEN 0 ELSE prev.half_moves + 1

\* a capture by a piece that is not a pawn, resetting a clock that was running
C7_Witness ==
  /\ result \in Accepted
  /\ moved_piece.piece_type # Pawn
  /\ piece_count(board) < piece_count(prev)
  /\ prev.half_moves > 0
  /\ board.half_moves = 0

\* C8: after an accepted move the en-passant target is present exactly when
\* the move was a pawn double-step, and is then the square the pawn skipped:
\* its file, the rank between its source and destination ranks
C8_TargetIsSkippedSquare ==
  result \in Accepted =>
    board.en_passant_target =
      IF last_move.move_type = PawnDoubleMove
      THEN Some(Sq(last_to.x, (last_from.y + last_to.y) \div 2))
      ELSE None

\* C9: an accepted pawn capture onto the en-passant target removes the pawn
\* on the target's file on the rank the capturing pawn started from, leaves
\* the capturing pawn on the target and its source empty, and sets the clock
\* to 0
C9_EnPassantRemovesPawn ==
  (/\ result \in Accepted
   /\ last_move.move_type = PawnCapture
   /\ prev.en_passant_target = Some(last_to)) =>
    LET victim == piece_at(prev, last_to.x, last_from.y)
    IN /\ IsSome(victim)
       /\ Unwrap(victim).piece_type = Pawn
       /\ piece_at(board, last_to.x, last_from.y) = None
       /\ piece_at(board, last_to.x, last_to.y) = Some(increment_move_count(moved_piece))
       /\ piece_at(board, last_from.x, last_from.y) = None
       /\ board.half_moves = 0

\* C10: after an accepted castling move the king is on its destination, the
\* rook of the corner the king moved toward is on the square next to the king
\* on the side the king came from, the corner and the king's source are
\* empty, both pieces' move counts are one higher, both castling rights of the
\* mover's colour are cleared and the clock is the previous value plus 1
C10_CastlingEffect ==
  (result \in Accepted /\ last_move.move_type = Castling) =>
    LET toward == IF last_to.x > last_from.x THEN 1 ELSE -1
        corner == IF toward = 1 THEN 7 ELSE 0
        rook == piece_at(prev, corner, last_from.y)
    IN /\ last_to.y = last_from.y
       /\ moved_piece.piece_type = King
       /\ IsSome(rook) /\ Unwrap(rook).piece_type = Rook
       /\ piece_at(board, last_to.x, last_to.y) = Some(increment_move_count(moved_piece))
       /\ piece_at(board, last_to.x - toward, last_to.y)
            = Some(increment_move_count(Unwrap(rook)))
       /\ piece_at(board, corner, last_from.y) = None
       /\ piece_at(board, last_from.x, last_from.y) = None
       /\ rights_of(board, moved_piece.color) = CastlingNone
       /\ board.half_moves = prev.half_moves + 1

\* a castling toward file 0 by a colour that held both rights
C10_Witness ==
  /\ result = Ok
  /\ last_move.move_type = Castling
  /\ last_to.x < last_from.x
  /\ rights_of(prev, moved_piece.color) = CastlingBoth

\* C11: an accepted move changes the castling rights of the moved piece's
\* colour in this way only: a King move clears both; a Rook move clears the
\* kingside right when the rook's initial file is 0 and the queenside right
\* when it is 7; any other move leaves them as they were
C11_RightsUpdate ==
  result \in Accepted =>
    LET before == rights_of(prev, moved_piece.color)
        after == rights_of(board, moved_piece.color)
        initial_file == moved_piece.initial_square.x
    IN IF moved_piece.piece_type = King
       THEN ~after.kingside /\ ~after.queenside
       ELSE IF moved_piece.piece_type = Rook /\ initial_file = 0
       THEN ~after.kingside /\ after.queenside = before.queenside
       ELSE IF moved_piece.piece_type = Rook /\ initial_file = 7
       THEN after.kingside = before.kingside /\ ~after.queenside
       ELSE after = before

\* a rook that started on file 0 has moved: of two rights its colour held,
\* the kingside one is gone
C11_Witness ==
  /\ result \in Accepted
  /\ moved_piece.piece_type = Rook
  /\ moved_piece.initial_square.x = 0
  /\ rights_of(prev, moved_piece.color) = CastlingBoth
  /\ rights_of(board, moved_piece.color) = [kingside |-> FALSE, queenside |-> TRUE]

\* what a FEN text tells about a board: the type and colour of the piece in
\* every cell, the active colour, the rights, the target and the counters
fen_view(b) ==
  [pieces |-> [sq \in Squares |->
                 IF piece_at(b, sq.x, sq.y) = None THEN None
                 ELSE Some(<< Unwrap(piece_at(b, sq.x, sq.y)).piece_type,
                             Unwrap(piece_at(b, sq.x, sq.y)).color >>)],
   active_color |-> b.active_color,
   white_castling |-> b.white_castling,
   black_castling |-> b.black_castling,
   en_passant_target |-> b.en_passant_target,
   half_moves |-> b.half_moves,
   full_moves |-> b.full_moves]

\* a text decodes to a board that shows what b shows and encodes to the text
decodes_back(b, text, decoded) ==
  fen_view(decoded) = fen_view(b) /\ into_fen(decoded) = text

\* C12: for every board b reached by play_move from a decoded board,
\* from_fen(into_fen(b)) has the same piece type and colour in every cell, the
\* same active colour, rights, en-passant target and counters as b, and
\* encodes to the same text as b
C12_FenRoundTrip == decodes_back(board, into_fen(board), from_fen(into_fen(board)))

\* a board after a double-step, with an en-passant target, whose text decodes
\* to the same target
C12_Witness ==
  /\ nmoves > 0
  /\ IsSome(board.en_passant_target)
  /\ from_fen(into_fen(board)).en_passant_target = board.en_passant_target

\* C13: an accepted move returns PawnPromote exactly when the moved piece is
\* a pawn and its destination is the farthest rank for its colour (7 for
\* White, 0 for Black), and Ok otherwise; after PawnPromote the destination
\* still holds a Pawn of the mover's colour, the clock is 0, the turn has
\* flipped and the en-passant target is absent
C13_PromoteResult ==
  result \in Accepted =>
    LET farthest == IF moved_piece.color = White THEN 7 ELSE 0
        arrived == piece_at(board, last_to.x, last_to.y)
    IN /\ result = PawnPromote
            <=> (moved_piece.piece_type = Pawn /\ last_to.y = farthest)
       /\ result = PawnPromote =>
            /\ IsSome(arrived)
            /\ Unwrap(arrived).piece_type = Pawn
            /\ Unwrap(arrived).color = moved_piece.color
            /\ board.half_moves = 0
            /\ board.active_color = Opposite(prev.active_color)
            /\ board.en_passant_target = None

\* a Black pawn has reached rank 0 while the board held an en-passant target
C13_Witness ==
  /\ result = PawnPromote
  /\ moved_piece.color = Black
  /\ last_to.y = 0
  /\ IsSome(prev.en_passant_target)

\* the squares that hold a Rook, a Bishop or a Queen
sliders(b) ==
  {s \in Squares : /\ IsSome(piece_at(b, s.x, s.y))
                   /\ Unwrap(piece_at(b, s.x, s.y)).piece_type \in {Rook, Bishop, Queen}}

\* the squares of the ray from `square` in the rule's direction up to the
\* first occupied square, that square included when it holds a piece of the
\* other colour
ray_squares(b, piece, square, move_rule) ==
  LET at(k) == Sq(square.x + k * move_rule.x_offset, square.y + k * move_rule.y_offset)
      on(k) == at(k).x \in Coords /\ at(k).y \in Coords
      empty(k) == on(k) /\ piece_at(b, at(k).x, at(k).y) = None
      clear(k) == \A i \in 1..k : empty(i)
      capture(k) == /\ on(k) /\ ~empty(k)
                    /\ Unwrap(piece_at(b, at(k).x, at(k).y)).color # piece.color
                    /\ clear(k - 1)
  IN {at(k) : k \in {j \in 1..7 : clear(j) \/ capture(j)}}

\* the targets of a list of moves
targets(moves) == {moves[k].target : k \in 1..Len(moves)}

\* what C14 says of the generation with king safety off for one piece and one
\* of its rules: the list the code builds call by call, which is the list the
\* model uses, holds each square of the ray once and nothing else
ray_law(b, piece, square, move_rule, unchecked) ==
  /\ unchecked = line_of_sight_walk(b, piece, square, move_rule)
  /\ targets(unchecked) = ray_squares(b, piece, square, move_rule)
  /\ Len(unchecked) = Cardinality(ray_squares(b, piece, square, move_rule))

\* the squares of all rays of a piece
all_ray_squares(b, piece, square) ==
  UNION {ray_squares(b, piece, square, move_rules(piece)[i]) :
           i \in 1..Len(move_rules(piece))}

\* C14: for every Rook, Bishop or Queen and each of its directions, the
\* generation with king safety off returns exactly the squares of the ray up
\* to the first occupied square, that square included exactly when it holds a
\* piece of the other colour; with king safety on it returns a subset of them.
\* play_move is called for every pair of squares and accepts the targets the
\* generation with king safety on returns, so the second part is read off the
\* accepted LineOfSight moves.
C14_RayLaw ==
  /\ \A s \in sliders(board) :
       \A i \in 1..Len(move_rules(Unwrap(piece_at(board, s.x, s.y)))) :
         ray_law(board, Unwrap(piece_at(board, s.x, s.y)), s,
                 move_rules(Unwrap(piece_at(board, s.x, s.y)))[i],
                 unchecked_moves_for_rule(board, Unwrap(piece_at(board, s.x, s.y)), s,
                                          move_rules(Unwrap(piece_at(board, s.x, s.y)))[i],
                                          Safe))
  /\ (result \in Accepted /\ last_move.move_type = LineOfSight) =>
       /\ moved_piece.piece_type \in {Rook, Bishop, Queen}
       /\ last_to \in all_ray_squares(prev, moved_piece, last_from)

\* a ray that ends on a piece of the other colour, of which the generation
\* with king safety on keeps some squares and drops others
C14_Witness ==
  \E s \in sliders(board) :
    \E i \in 1..Len(move_rules(Unwrap(piece_at(board, s.x, s.y)))) :
      LET piece == Unwrap(piece_at(board, s.x, s.y))
          squares == ray_squares(board, piece, s, move_rules(piece)[i])
          checked == valid_moves_for_rule(board, piece, s, move_rules(piece)[i], Safe)
      IN /\ \E t \in squares : IsSome(piece_at(board, t.x, t.y))
         /\ checked # Abort
         /\ checked # << >>
         /\ targets(checked) # squares

\* C15: parsing a square succeeds exactly when the text is two characters,
\* a file letter a-h in either case and then a rank digit 1-8, and yields
\* the square of that file and rank; rendering a parsed square and parsing
\* the rendering gives the same square
C15_ParseExactlyFileRank ==
  parsed # << >> =>
    LET file == IF Len(square_text) = 2 THEN IndexOf(FileLetters, to_lowercase(square_text[1])) ELSE 0
        rank == IF Len(square_text) = 2 THEN IndexOf(RankDigits, square_text[2]) ELSE 0
    IN /\ parsed[1] = IF file > 0 /\ rank > 0 THEN Some(Sq(file - 1, rank - 1)) ELSE None
       /\ IsSome(parsed[1]) =>
            square_try_from(square_display(Unwrap(parsed[1]))) = parsed[1]

\* the squares that hold a king
king_squares(b) == kings(b, White) \cup kings(b, Black)

\* the castling rules of a king
castling_rules == {KingRules[i] : i \in {j \in DOMAIN KingRules : KingRules[j].move_type = Castling}}

\* the file of the corner a castling rule looks for its rook in
corner_file(move_rule) == IF move_rule.x_offset < 0 THEN 0 ELSE 7

\* the squares strictly between a king and the corner of a castling rule
between(square, move_rule) ==
  {Sq(x, square.y) : x \in {i \in 0..7 : (square.x < i /\ i < corner_file(move_rule))
                                        \/ (corner_file(move_rule) < i /\ i < square.x)}}

\* the king of `square`, standing on t instead, is not attacked
safe_on(b, square, t) ==
  LET king == Unwrap(piece_at(b, square.x, square.y))
  IN is_king_threatened(board_copy(b, king, square, t), king.color) = Safe

\* what the claim lists for the king on `square` and a castling rule, apart
\* from the empty squares between king and rook
castling_conditions(b, square, move_rule) ==
  LET king == Unwrap(piece_at(b, square.x, square.y))
      target_square == ray(square, move_rule, 1)
      rook == piece_at(b, corner_file(move_rule), square.y)
  IN /\ target_square.x <= 7
     /\ ~has_moved(king)
     /\ piece_at(b, target_square.x, target_square.y) = None
     /\ IsSome(rook) /\ Unwrap(rook).piece_type = Rook /\ ~has_moved(Unwrap(rook))
     /\ is_king_threatened(b, king.color) = Safe
     /\ safe_on(b, square, target_square)

\* the squares between king and rook are empty
clear_between(b, square, move_rule) ==
  \A t \in between(square, move_rule) : piece_at(b, t.x, t.y) = None

\* valid_moves_for_rule(king, square, move_rule, true) holds the castling move
castles(b, square, move_rule) ==
  LET king == Unwrap(piece_at(b, square.x, square.y))
      moves == valid_moves_for_rule(b, king, square, move_rule,
                                    is_king_threatened(b, king.color))
  IN moves # Abort /\ has_target(moves, ray(square, move_rule, 1))

\* C16 as stated: with check_king_safety = true the castling move of a king is
\* returned whenever the king has never moved, the destination is empty, the
\* corner holds a Rook that has never moved, the squares between king and rook
\* are empty, and neither the king's square nor its destination is attacked,
\* whatever is attacked in between
C16_CastlingIgnoresPath ==
  \A square \in king_squares(board) : \A move_rule \in castling_rules :
    (castling_conditions(board, square, move_rule) /\ clear_between(board, square, move_rule))
      => castles(board, square, move_rule)

\* C16 amended: with check_king_safety = true the castling move of a king is
\* returned exactly when the king has never moved, the destination is empty,
\* the corner holds a Rook that has never moved, the king's ray towards the
\* rook reaches as many squares as lie between king and rook, neither the
\* king's square nor its destination is attacked, and the king would not be
\* attacked on any square that ray reaches: an attacked square between king
\* and rook, passed through or beyond the destination, refuses the move
C16_CastlingNeedsSafePath ==
  \A square \in king_squares(board) : \A move_rule \in castling_rules :
    LET king == Unwrap(piece_at(board, square.x, square.y))
        reach == targets(line_of_sight_walk(board, king, square, path_rule(move_rule)))
    IN castles(board, square, move_rule) <=>
         /\ castling_conditions(board, square, move_rule)
         /\ Cardinality(reach) = Cardinality(between(square, move_rule))
         /\ \A t \in reach : safe_on(board, square, t)

\* a king that meets the listed conditions and is refused the castling move,
\* a square between it and the rook being attacked
C16_Witness ==
  \E square \in king_squares(board) : \E move_rule \in castling_rules :
    /\ castling_conditions(board, square, move_rule)
    /\ clear_between(board, square, move_rule)
    /\ \E t \in between(square, move_rule) : ~safe_on(board, square, t)
    /\ ~castles(board, square, move_rule)

\* C17: play_move never accepts a Castling move that takes a king three
\* files towards file 0, and so never relocates a rook for one
C17_NoThreeFileCastling ==
  ~( /\ result \in Accepted
     /\ last_move.move_type = Castling
     /\ moved_piece.piece_type = King
     /\ last_from.x - last_to.x = 3 )

\* the squares that hold a pawn
pawn_squares(b) ==
  {s \in Squares : IsSome(piece_at(b, s.x, s.y))
                   /\ Unwrap(piece_at(b, s.x, s.y)).piece_type = Pawn}

\* the rank two ranks forward of a pawn: upwards for White, downwards for Black
double_rank(piece, square) == IF piece.color = White THEN square.y + 2 ELSE square.y - 2

\* the targets of the double-steps in a list of moves
double_steps(moves) ==
  {moves[k].target : k \in {i \in 1..Len(moves) : moves[i].move_type = PawnDoubleMove}}

\* the squares of a pawn's file strictly between it and a rank
passed(square, rank) ==
  {Sq(square.x, y) : y \in {i \in 0..7 : (square.y < i /\ i < rank) \/ (rank < i /\ i < square.y)}}

\* C18: with king safety off a pawn's double-step is generated exactly when
\* the pawn's move count is 0 and the square two ranks forward is on the
\* board and empty, wherever the pawn stands and whatever is on the square it
\* passes; its target is that square
C18_DoubleStepLaw ==
  \A square \in pawn_squares(board) :
    LET piece == Unwrap(piece_at(board, square.x, square.y))
        rank == double_rank(piece, square)
        steps == double_steps(unchecked_moves(board, piece, square, Safe))
    IN steps = IF /\ piece.move_count = 0
                  /\ rank \in 0..7
                  /\ piece_at(board, square.x, rank) = None
               THEN {Sq(square.x, rank)} ELSE {}

\* a board after a move where one pawn is given the double-step over an
\* occupied square and another, having moved, is refused it before an empty one
C18_Witness ==
  /\ nmoves > 0
  /\ \E square \in pawn_squares(board) :
       LET piece == Unwrap(piece_at(board, square.x, square.y))
           rank == double_rank(piece, square)
       IN /\ double_steps(unchecked_moves(board, piece, square, Safe)) # {}
          /\ \E t \in passed(square, rank) : IsSome(piece_at(board, t.x, t.y))
  /\ \E square \in pawn_squares(board) :
       LET piece == Unwrap(piece_at(board, square.x, square.y))
           rank == double_rank(piece, square)
       IN /\ piece.move_count > 0
          /\ rank \in 0..7 /\ piece_at(board, square.x, rank) = None
          /\ double_steps(unchecked_moves(board, piece, square, Safe)) = {}

\* p is q after one more move: the type, colour and initial square of q and
\* a move count greater by 1
moved_once(p, q) ==
  /\ p.piece_type = q.piece_type
  /\ p.color = q.color
  /\ p.initial_square = q.initial_square
  /\ p.move_count = q.move_count + 1

\* the squares the rook of the last move, a castling move, left and reached
rook_left == Sq(IF last_to.x > last_from.x THEN 7 ELSE 0, last_to.y)
rook_reached == Sq(IF last_to.x > last_from.x THEN last_to.x - 1 ELSE last_to.x + 1, last_to.y)

\* the last move was a pawn's capture onto the en-passant target
took_en_passant ==
  last_move.move_type = PawnCapture /\ prev.en_passant_target = Some(last_to)

\* C19: after an accepted move the destination holds the moved piece with
\* its type, colour and initial square and a move count greater by 1, and the
\* source is empty; after a castling move the rook has left its corner and
\* stands beside the king, its move count greater by 1; every other square
\* holds what it held, except that the pawn an en-passant capture takes, on
\* the destination's file, is gone
C19_FrameEffect ==
  result \in Accepted =>
    LET castled == last_move.move_type = Castling
        placed == piece_at(board, last_to.x, last_to.y)
        rook == piece_at(board, rook_reached.x, rook_reached.y)
    IN /\ IsSome(placed) /\ moved_once(Unwrap(placed), moved_piece)
       /\ piece_at(board, last_from.x, last_from.y) = None
       /\ castled =>
            /\ IsSome(rook)
            /\ moved_once(Unwrap(rook), Unwrap(piece_at(prev, rook_left.x, rook_left.y)))
            /\ piece_at(board, rook_left.x, rook_left.y) = None
       /\ \A s \in Squares \ ({last_from, last_to}
                                \cup (IF castled THEN {rook_left, rook_reached} ELSE {})) :
            \/ piece_at(board, s.x, s.y) = piece_at(prev, s.x, s.y)
            \/ /\ took_en_passant
               /\ s.x = last_to.x
               /\ piece_at(board, s.x, s.y) = None

\* an accepted en-passant capture on a board with other pieces: the taken
\* pawn has left a square that is neither the source nor the destination
C19_Witness ==
  /\ result \in Accepted
  /\ took_en_passant
  /\ \E s \in Squares \ {last_from, last_to} :
       IsSome(piece_at(prev, s.x, s.y)) /\ piece_at(board, s.x, s.y) = None
  /\ piece_count(board) > 3

\* the cells valid_moves_for_rule indexes for a rule, besides the loops over
\* 0..8 of is_king_threatened and find_piece: after the range test the target,
\* the rook's corner on the target's rank for a castling rule, and in the
\* retain the target and the piece's square
cells_indexed(square, move_rule) ==
  LET target_square == ray(square, move_rule, 1)
  IN IF target_square.x > 7 \/ target_square.y > 7 THEN {}
     ELSE {target_square, square}
          \cup (IF move_rule.move_type = Castling
                THEN {Sq(IF move_rule.x_offset < 0 THEN 0 ELSE 7, target_square.y)}
                ELSE {})

\* the signed sum of a square and a rule's offset leaves the board
leaves_board(square, move_rule) ==
  \/ square.x + move_rule.x_offset \notin 0..7
  \/ square.y + move_rule.y_offset \notin 0..7

\* C20: every target that valid_moves returns for a piece on a square of the
\* board has file and rank in 0..7, generation indexes the board inside 0..7
\* only, and a rule whose offset leaves the board, below 0 or above 7, yields
\* no move
C20_TargetsOnBoard ==
  generated # << >> =>
    LET listing == generated[1]
        piece == Unwrap(piece_at(board, listing.square.x, listing.square.y))
        returned == collect(listing.lists)
    IN /\ ~Aborted(returned) => targets(returned) \subseteq Squares
       /\ \A i \in 1..Len(move_rules(piece)) :
            /\ cells_indexed(listing.square, move_rules(piece)[i]) \subseteq Squares
            /\ leaves_board(listing.square, move_rules(piece)[i]) => listing.lists[i] = << >>

\* a checked call for a piece that has a rule leaving the board below 0, a
\* rule leaving it above 7, and a rule that yields a move
C20_Witness ==
  /\ generated # << >>
  /\ generated[1].check_king_safety
  /\ LET listing == generated[1]
         rules == move_rules(Unwrap(piece_at(board, listing.square.x, listing.square.y)))
     IN /\ \E i \in 1..Len(rules) : \/ listing.square.x + rules[i].x_offset < 0
                                     \/ listing.square.y + rules[i].y_offset < 0
        /\ \E i \in 1..Len(rules) : \/ listing.square.x + rules[i].x_offset > 7
                                     \/ listing.square.y + rules[i].y_offset > 7
        /\ \E i \in 1..Len(rules) : ~Aborted(listing.lists[i]) /\ listing.lists[i] # << >>

\* C21: play_move applies moves of the side to move only: an accepted move
\* moved a piece whose colour was active_color before the call
C21_OnlySideToMove ==
  result \in Accepted => moved_piece.color = prev.active_color

\* the squares whose piece the last move took off the board: they held a
\* piece that the move did not relocate and hold it no more
removed_squares ==
  {s \in Squares \ ({last_from} \cup (IF last_move.move_type = Castling
                                       THEN {rook_left} ELSE {})) :
     /\ IsSome(piece_at(prev, s.x, s.y))
     /\ piece_at(board, s.x, s.y) # piece_at(prev, s.x, s.y)}

\* C22: an accepted move takes at most one piece off the board, and a piece
\* it takes has the colour opposite to the moved piece
C22_RemovesOneEnemy ==
  result \in Accepted =>
    /\ Cardinality(removed_squares) <= 1
    /\ \A s \in removed_squares :
         Unwrap(piece_at(prev, s.x, s.y)).color # moved_piece.color

\* C23: a castling move is accepted only if, before the move, the moved
\* king's colour holds the right for its side: kingside for the move towards
\* file 7, queenside for the move towards file 0
C23_CastlingNeedsRight ==
  (result \in Accepted /\ last_move.move_type = Castling) =>
    IF last_to.x > last_from.x
    THEN rights_of(prev, moved_piece.color).kingside
    ELSE rights_of(prev, moved_piece.color).queenside

\* play_move(from, to) on two boards returns the same result and leaves
\* boards with the same FEN text
same_play(b, valid_b, d, valid_d, from, to) ==
  LET on_b == play_found(b, from, to, valid_b)
      on_d == play_found(d, from, to, valid_d)
  IN /\ on_b.result = on_d.result
     /\ on_b.result \in Accepted => into_fen(on_b.board) = into_fen(on_d.board)

\* C24: the FEN text determines behaviour: for every source and destination
\* play_move on the board decoded from the board's FEN text returns what it
\* returns on the board and leaves a board with the same FEN text
C24_FenDeterminesPlay ==
  \A decoded \in {from_fen(into_fen(board))} :
    \A from \in {s \in Squares : IsSome(piece_at(board, s.x, s.y))} :
      \A valid_b \in {legal_moves(board, from)} :
        \A valid_d \in {legal_moves(decoded, from)} :
          \A to \in Squares : same_play(board, valid_b, decoded, valid_d, from, to)

\* every right a record holds, the other record holds too
within(rights, others) ==
  /\ rights.kingside => others.kingside
  /\ rights.queenside => others.queenside

\* C25: no call of play_move turns a castling right from false to true, and
\* an accepted move leaves the rights of the colour opposite to the moved
\* piece as they were, also when it takes that colour's rook
C25_RightsMonotoneLocal ==
  /\ \A color \in Colors : within(rights_of(board, color), rights_of(prev, color))
  /\ result \in Accepted =>
       rights_of(board, Opposite(moved_piece.color))
         = rights_of(prev, Opposite(moved_piece.color))

\* an accepted move that takes a rook of the other colour, which held a
\* right and holds it still, made by a colour that lacked a right
C25_Witness ==
  /\ result \in Accepted
  /\ LET taken == piece_at(prev, last_to.x, last_to.y)
     IN /\ IsSome(taken)
        /\ Unwrap(taken).piece_type = Rook
        /\ Unwrap(taken).color # moved_piece.color
        /\ rights_of(prev, Unwrap(taken).color) # CastlingNone
        /\ rights_of(board, Unwrap(taken).color) = rights_of(prev, Unwrap(taken).color)
  /\ rights_of(prev, moved_piece.color) # CastlingBoth

====
